---- MODULE Spec2Model ----
(***************************************************************************)
(* Model of the dashboard script src/app.py: one Streamlit session that    *)
(* re-runs the script top to bottom.  A run reads the widgets, fetches the *)
(* last snapshot of the selected node (fb_get_last), appends it to the     *)
(* in-memory history (push_history), handles the command buttons           *)
(* (send_cmd) and, when auto refresh is on, sleeps and reruns.             *)
(*                                                                         *)
(* Python values are tagged records: None is [k |-> "None"], a number is   *)
(* [k |-> "num", v |-> n], a datetime is [k |-> "dt", us |-> n] with n in  *)
(* microseconds.  A dict is a function from its keys; strings that the     *)
(* code formats or slices are sequences of one-character strings.          *)
(***************************************************************************)
EXTENDS Integers, Sequences, FiniteSets, TLC

\* ---------------------------------------------------------------- bounds
\* the history capacity that the configuration sets (HISTORY_POINTS)
Capacity == 2
\* wall-clock ticks after which the modelled clock stands still
MaxTicks == 1

\* ------------------------------------------------------- program constants
\* r.text[:200]
BODY_LIMIT == 200
\* float(ts_ms) / 1000.0 seconds, kept by datetime in microseconds
UsPerMs == 1000

NODES == {"node1", "node2"}

VARIABLES
    HISTORY_POINTS, \* configured capacity, read once at process start
    hist,           \* st.session_state["hist"]: node -> sequence of rows
    node,           \* the selectbox value read by the current run
    auto,           \* the toggle value read by the current run
    clicked,        \* whether a button's trigger is set for the current run
    pc,             \* position of the script run
    last,           \* the script's variable `last`
    uncaught,       \* the exception that ended the run, if any
    remote,         \* what the remote store did on this run's fetch
    cmd,            \* the relay's reply and send_cmd's result of this run
    pushed,         \* the push_history call that has just returned
    appended,       \* node -> times of the rows appended so far, ascending
    clock,          \* wall clock, microseconds
    everClicked,    \* whether a button click has been delivered
    posts,          \* requests.post calls since the latest click was delivered
    io,             \* ref.get() in flight; fetches and appends of this run
    peer            \* a second session: its st.session_state.hist and node

vars == <<HISTORY_POINTS, hist, node, auto, clicked, pc, last, uncaught,
          remote, cmd, pushed, appended, clock, everClicked, posts, io,
          peer>>

\* ---------------------------------------------------------- Python values
PyNone == [k |-> "None"]
Num(n) == [k |-> "num", v |-> n]
Str(s) == [k |-> "str", s |-> s]
NaN == [k |-> "nan"]
DateTime(us) == [k |-> "dt", us |-> us]
EmptyDict == <<>>
Dict(d) == [k |-> "dict", d |-> d]

Min(a, b) == IF a < b THEN a ELSE b
Max(a, b) == IF a > b THEN a ELSE b

\* dict.get(key): the value, or None when the key is absent
Get(d, key) == IF key \in DOMAIN d THEN d[key] ELSE PyNone

\* variant: only None is false
Truthy_not_none(val) == val.k # "None"

\* truth value of `val` in `val or {}` and `if last:`
Truthy(val) ==
    CASE val.k = "None" -> FALSE
      [] val.k = "dict" -> DOMAIN val.d # {}
      [] OTHER -> TRUE

\* the outcome of a call: a returned value or a raised exception
Return(v) == [k |-> "return", val |-> v]
Raise(e) == [k |-> "raise", exc |-> e]

\* ------------------------------------------------------------ text values
DigitChars == <<"0", "1", "2", "3", "4", "5", "6", "7", "8", "9">>

\* str(n) of a natural number: its decimal digits
RECURSIVE Decimal(_)
Decimal(n) ==
    IF n < 10 THEN <<DigitChars[n + 1]>>
    ELSE Decimal(n \div 10) \o <<DigitChars[(n % 10) + 1]>>

\* text[:limit]
Prefix(text, limit) == SubSeq(text, 1, Min(limit, Len(text)))

\* ------------------------------------------------------------ fb_get_last
\* variant: an error of ref.get() is swallowed and None returned
fb_get_last_swallow(reply) ==
    IF reply.k = "error" THEN Return(PyNone) ELSE Return(reply.val)

\* ref.get() either returns the stored value or raises; fb_get_last has no
\* handler, so it returns what ref.get() returns and raises what it raises.
fb_get_last(reply) ==
    IF reply.k = "error" THEN Raise(reply.exc) ELSE Return(reply.val)

\* ---------------------------------------------------------------- send_cmd
\* The relay's reply to requests.post: an HTTP response, or an exception
\* raised by requests.  The result carries the number of POSTs performed.
OkMessage(status) == <<"O", "K", " ", "(">> \o Decimal(status) \o <<")">>
HttpMessage(status, text) ==
    <<"H", "T", "T", "P", " ">> \o Decimal(status) \o <<":", " ">>
        \o Prefix(text, BODY_LIMIT)

\* str(e) of an exception
PyStr(e) == e.text

\* variant: status 300 counts as success
send_cmd_inclusive(reply) ==
    IF reply.k = "exc"
    THEN [k |-> "return", ok |-> FALSE, msg |-> PyStr(reply.exc), posts |-> 1]
    ELSE IF reply.status >= 200 /\ reply.status <= 300
         THEN [k |-> "return", ok |-> TRUE,
               msg |-> OkMessage(reply.status), posts |-> 1]
         ELSE [k |-> "return", ok |-> FALSE,
               msg |-> HttpMessage(reply.status, reply.text), posts |-> 1]

\* variant: no except clause, the exception of requests.post propagates
send_cmd_no_handler(reply) ==
    IF reply.k = "exc"
    THEN [k |-> "raise", exc |-> reply.exc.type, posts |-> 1]
    ELSE IF reply.status >= 200 /\ reply.status < 300
         THEN [k |-> "return", ok |-> TRUE,
               msg |-> OkMessage(reply.status), posts |-> 1]
         ELSE [k |-> "return", ok |-> FALSE,
               msg |-> HttpMessage(reply.status, reply.text), posts |-> 1]

\* variant: a failed POST is tried a second time
send_cmd_retry(reply) ==
    IF reply.k = "exc"
    THEN [k |-> "return", ok |-> FALSE, msg |-> PyStr(reply.exc), posts |-> 2]
    ELSE IF reply.status >= 200 /\ reply.status < 300
         THEN [k |-> "return", ok |-> TRUE,
               msg |-> OkMessage(reply.status), posts |-> 1]
         ELSE [k |-> "return", ok |-> FALSE,
               msg |-> HttpMessage(reply.status, reply.text), posts |-> 2]

\* try: r = requests.post(...); 2xx -> (True, "OK (status)"); otherwise
\* (False, "HTTP status: text[:200]"); except Exception as e: (False, str(e))
send_cmd(reply) ==
    IF reply.k = "exc"
    THEN [k |-> "return", ok |-> FALSE, msg |-> PyStr(reply.exc), posts |-> 1]
    ELSE IF reply.status >= 200 /\ reply.status < 300
         THEN [k |-> "return", ok |-> TRUE,
               msg |-> OkMessage(reply.status), posts |-> 1]
         ELSE [k |-> "return", ok |-> FALSE,
               msg |-> HttpMessage(reply.status, reply.text), posts |-> 1]

\* ---------------------------------------------------------- ms_to_datetime
\* float(ts_ms): raises ValueError for a string that is no number
Float(x) ==
    CASE x.k = "num" -> Return(x)
      [] x.k = "nan" -> Return(x)
      [] OTHER -> Raise("ValueError")

\* dt.datetime.fromtimestamp(seconds): raises ValueError for nan
fromtimestamp(x) ==
    IF x.k = "nan" THEN Raise("ValueError")
    ELSE Return(DateTime(x.v * UsPerMs))

ms_to_datetime(ts_ms) ==
    IF ts_ms.k = "None" THEN PyNone
    ELSE LET f == Float(ts_ms) IN
         IF f.k = "raise" THEN PyNone
         ELSE LET d == fromtimestamp(f.val) IN
              IF d.k = "raise" THEN PyNone ELSE d.val

\* ------------------------------------------------------------ push_history
\* variant: no wall-clock fallback
EffectiveTime_no_fallback(snapshot, now) == ms_to_datetime(Get(snapshot, "ts"))

\* t = ms_to_datetime(last.get("ts")) or dt.datetime.now()
EffectiveTime(snapshot, now) ==
    LET t == ms_to_datetime(Get(snapshot, "ts")) IN
    IF Truthy(t) THEN t ELSE DateTime(now)

Row(snapshot, t) ==
    [time |-> t,
     temperature |-> Get(snapshot, "temperature"),
     humidity |-> Get(snapshot, "humidity"),
     luminosity |-> Get(snapshot, "luminosity"),
     sound |-> Get(snapshot, "sound"),
     fan_state |-> Get(snapshot, "fan_state")]

\* pd.concat([df, pd.DataFrame([row])], ignore_index=True)
concat(df, row) == Append(df, row)

HasTime(r) == r.time.k # "None"
\* df.dropna(subset=["time"])
dropna(df) == SelectSeq(df, HasTime)

Without(df, i) == SubSeq(df, 1, i - 1) \o SubSeq(df, i + 1, Len(df))

\* variant: the rows are left in the order of concatenation
sort_values_unsorted(df) == {df}

\* df.sort_values("time"): the rows in ascending time.  pandas' default
\* sort is not stable, so rows of equal time may come out in any order:
\* the set of the possible results, each built from a row of least time
\* followed by a sorted arrangement of the others.
RECURSIVE sort_values(_)
sort_values(df) ==
    IF df = <<>> THEN {<<>>}
    ELSE LET least == {i \in 1..Len(df) :
                          \A j \in 1..Len(df) : df[i].time.us <= df[j].time.us}
         IN UNION {{<<df[i]>> \o s : s \in sort_values(Without(df, i))} :
                      i \in least}

\* df.iloc[start:] for a start that may be negative (Python slicing)
ILocFrom(df, start) ==
    LET n == Len(df)
        from == IF start < 0 THEN Max(n + start, 0) ELSE Min(start, n)
    IN SubSeq(df, from + 1, n)

\* variant: the bound is checked one row too late
Trim_late(df, capacity) ==
    IF Len(df) > capacity + 1 THEN ILocFrom(df, 0 - capacity) ELSE df

\* variant: the first rows are kept instead of the last
Trim_head(df, capacity) ==
    IF Len(df) > capacity THEN SubSeq(df, 1, capacity) ELSE df

\* if len(df) > HISTORY_POINTS: df = df.iloc[-HISTORY_POINTS:]
Trim(df, capacity) ==
    IF Len(df) > capacity THEN ILocFrom(df, 0 - capacity) ELSE df

\* the series that push_history may store for df, the snapshot and the
\* wall-clock reading `now`
push_history(df, snapshot, now, capacity) ==
    LET row == Row(snapshot, EffectiveTime(snapshot, now))
    IN {Trim(s, capacity) : s \in sort_values(dropna(concat(df, row)))}

\* ------------------------------------------------------------ environment
Chars(n) == [i \in 1..n |-> DigitChars[(i % 10) + 1]]

\* the snapshots given to push_history: with a usable, a missing and an
\* unusable timestamp, and two readings of one timestamp
Snapshots ==
    {("ts" :> Num(1)) @@ ("temperature" :> Num(24)),
     ("ts" :> Num(2)) @@ ("temperature" :> Num(24)),
     ("ts" :> Num(2)) @@ ("temperature" :> Num(25)),
     ("temperature" :> Num(24)),
     ("ts" :> Str("abc")) @@ ("temperature" :> Num(24)),
     ("ts" :> NaN) @@ ("temperature" :> Num(24))}

\* the snapshots that /iot/<node>/last holds during a session
StoredSnapshots ==
    {s \in Snapshots :
        /\ Get(s, "temperature") = Num(24)
        /\ Get(s, "ts") \in {Num(1), Num(2), PyNone, Str("abc")}}

\* what ref.get() may do: return a snapshot, None or an empty record, or
\* raise on a network or service error
RemoteReplies ==
    {[k |-> "value", val |-> Dict(s)] : s \in StoredSnapshots}
        \cup {[k |-> "value", val |-> PyNone],
              [k |-> "value", val |-> Dict(EmptyDict)],
              [k |-> "error", exc |-> "UnavailableError"]}

StatusCodes == 190..310 \cup {404, 500}
BodyLengths == {0, BODY_LIMIT, BODY_LIMIT + 1}
TransportErrors ==
    {[type |-> "ConnectTimeout", text |-> <<"t", "i", "m", "e", "d">>],
     [type |-> "ConnectionError", text |-> <<"r", "e", "f", "u", "s", "e", "d">>]}

\* what requests.post may do: return a response or raise
RelayReplies ==
    {[k |-> "http", status |-> c, text |-> Chars(n)] :
        c \in StatusCodes, n \in BodyLengths}
        \cup {[k |-> "exc", exc |-> e] : e \in TransportErrors}

\* the relay's replies that a session meets
SessionReplies ==
    {r \in RelayReplies :
        \/ r.k = "exc"
        \/ r.status \in {204, 500} /\ Len(r.text) = BODY_LIMIT + 1}

\* The six buttons differ in the payload they pass to send_cmd, which
\* send_cmd forwards unread.
Buttons ==
    {"set_rgb", "night_mode", "force_send", "fan_set_threshold",
     "fan_force_on", "fan_force_off"}
NoCmd == [k |-> "none"]
NoPush == [called |-> FALSE]
NoException == "none"

ClockStart == 2 * UsPerMs - 1
ClockEnd == ClockStart + MaxTicks
Ticks == {0, 1}

\* appends per node whose times `appended` records
MaxAppends == Capacity + 2
Recording == [times |-> <<>>, lost |-> FALSE]
\* rows of a series beyond which no further append is explored
MaxRows == Capacity + 2
\* no remote call in flight, no fetch and no append in this run yet
NoIO == [inflight |-> 0, fetches |-> 0, appends |-> 0]
\* two browser tabs on the one server process
Sessions == {"s1", "s2"}
\* the second session before its first append
NoPeer ==
    [hist |-> [n \in NODES |-> <<>>], node |-> "node2", actor |-> "none"]

\* ------------------------------------------------------------------ state
\* the state at the first run of a session: node2 selected, auto refresh on
Init ==
    /\ HISTORY_POINTS = Capacity
    /\ hist = [n \in NODES |-> <<>>]
    /\ node = "node2"
    /\ auto = TRUE
    /\ clicked = FALSE
    /\ pc = "fetch"
    /\ last = EmptyDict
    /\ uncaught = NoException
    /\ remote = "none"
    /\ cmd = NoCmd
    /\ pushed = NoPush
    /\ appended = [n \in NODES |-> Recording]
    /\ clock = ClockStart
    /\ everClicked = FALSE
    /\ posts = 0
    /\ io = NoIO
    /\ peer = NoPeer

\* variant: every run creates the frames of st.session_state.hist anew
Rerun_new_hist(newNode, newAuto, newClicked) ==
    /\ hist' = [n \in NODES |-> <<>>]
    /\ node' = newNode
    /\ auto' = newAuto
    /\ clicked' = newClicked
    /\ pc' = "fetch"
    /\ last' = EmptyDict
    /\ uncaught' = NoException
    /\ remote' = "none"
    /\ cmd' = NoCmd
    /\ pushed' = NoPush
    /\ io' = [io EXCEPT !.fetches = 0, !.appends = 0]

\* A new script run with the given widget values: the previous run's
\* elements and locals are gone.  "hist" is in st.session_state since the
\* first run, so the frames are kept.
Rerun(newNode, newAuto, newClicked) ==
    /\ hist' = hist
    /\ node' = newNode
    /\ auto' = newAuto
    /\ clicked' = newClicked
    /\ pc' = "fetch"
    /\ last' = EmptyDict
    /\ uncaught' = NoException
    /\ remote' = "none"
    /\ cmd' = NoCmd
    /\ pushed' = NoPush
    /\ io' = [io EXCEPT !.fetches = 0, !.appends = 0]

\* sorted insertion of a time into an ascending sequence
InsertTime(seq, t) ==
    LET k == Cardinality({i \in 1..Len(seq) : seq[i] <= t})
    IN SubSeq(seq, 1, k) \o <<t>> \o SubSeq(seq, k + 1, Len(seq))

\* the record of appended times, while it has room
Record(a, t) ==
    IF a.lost \/ Len(a.times) >= MaxAppends
    THEN [times |-> <<>>, lost |-> TRUE]
    ELSE [a EXCEPT !.times = InsertTime(@, t)]

\* fb_get_last(node) is called: ref.get() is in flight and the script
\* waits for it.
StartFetch ==
    /\ pc = "fetch"
    /\ pc' = "fetching"
    /\ io' = [io EXCEPT !.inflight = @ + 1, !.fetches = @ + 1]
    /\ UNCHANGED <<HISTORY_POINTS, peer, hist, node, auto, clicked, last,
                   uncaught, remote, cmd, pushed, appended, clock,
                   everClicked, posts>>

\* last = fb_get_last(node) or {}
\* An exception of fb_get_last is not caught: Streamlit shows it and the
\* rest of the script, the sleep and rerun included, is not executed.
Fetch ==
    /\ pc = "fetching"
    /\ io' = [io EXCEPT !.inflight = @ - 1]
    /\ \E reply \in RemoteReplies :
        LET res == fb_get_last(reply) IN
        /\ remote' = (IF reply.k = "error" THEN "error"
                      ELSE IF Truthy(reply.val) THEN "snapshot" ELSE "nodata")
        /\ IF res.k = "raise"
           THEN /\ uncaught' = res.exc
                /\ pc' = "idle"
                /\ clicked' = FALSE
                /\ UNCHANGED last
           ELSE /\ last' = (IF Truthy(res.val) THEN res.val.d ELSE EmptyDict)
                /\ pc' = "push"
                /\ UNCHANGED <<uncaught, clicked>>
    /\ UNCHANGED <<HISTORY_POINTS, peer, hist, node, auto, cmd, pushed,
                   appended, clock, everClicked, posts>>

\* variant: the snapshot is appended to the series of every node
PushHistory_all_nodes(n, snapshot, d1, d2) ==
    LET now == Min(clock + d1, ClockEnd) IN
    /\ clock' = Min(now + d2, ClockEnd)
    /\ \E df \in push_history(hist[n], snapshot, now, HISTORY_POINTS) :
          hist' = [m \in NODES |->
                     IF m = n THEN df
                     ELSE CHOOSE x \in push_history(hist[m], snapshot, now,
                                                    HISTORY_POINTS) : TRUE]

\* One call push_history(n, snapshot): the clock advances by d1 up to its
\* reading of dt.datetime.now() and by d2 from there to the return.
PushHistory(n, snapshot, d1, d2) ==
    LET now == Min(clock + d1, ClockEnd) IN
    /\ clock' = Min(now + d2, ClockEnd)
    /\ \E df \in push_history(hist[n], snapshot, now, HISTORY_POINTS) :
        hist' = [hist EXCEPT ![n] = df]

\* if last: push_history(node, last)
\* The fetched record is only rendered from here on.
Push ==
    /\ pc = "push"
    /\ pc' = "buttons"
    /\ last' = EmptyDict
    /\ remote' = "none"
    /\ IF Truthy(Dict(last))
       THEN /\ \E d1 \in Ticks, d2 \in Ticks :
                  PushHistory(node, last, d1, d2)
            /\ io' = [io EXCEPT !.appends = @ + 1]
       ELSE UNCHANGED <<hist, clock, io>>
    /\ UNCHANGED <<HISTORY_POINTS, peer, node, auto, clicked, uncaught, cmd,
                   pushed, appended, everClicked, posts>>

\* The command buttons: the one whose trigger is set calls send_cmd, which
\* waits for the relay.  A trigger is read once, by its st.button call.
Commands ==
    /\ pc = "buttons"
    /\ clicked' = FALSE
    /\ pc' = IF clicked THEN "posting" ELSE "refresh"
    /\ UNCHANGED <<HISTORY_POINTS, peer, hist, node, auto, last, uncaught,
                   remote, cmd, pushed, appended, clock, everClicked, posts,
                   io>>

\* ok, msg = send_cmd(node, payload): requests.post returns or raises, and
\* the outcome is shown.
SendCmd ==
    /\ pc = "posting"
    /\ \E reply \in SessionReplies :
        LET res == send_cmd(reply) IN
        /\ posts' = posts + res.posts
        /\ cmd' = [k |-> "sent", reply |-> reply, result |-> res]
        /\ IF res.k = "raise"
           THEN /\ uncaught' = res.exc
                /\ pc' = "idle"
           ELSE /\ pc' = "refresh"
                /\ UNCHANGED uncaught
    /\ UNCHANGED <<HISTORY_POINTS, peer, hist, node, auto, clicked, last,
                   remote, pushed, appended, clock, everClicked, io>>

\* variant: the run ends with sleep and st.rerun() whatever the toggle
AutoRefresh_always ==
    /\ pc = "refresh"
    /\ \E d \in Ticks : clock' = Min(clock + d, ClockEnd)
    /\ Rerun(node, auto, FALSE)
    /\ UNCHANGED <<HISTORY_POINTS, peer, appended, everClicked, posts>>

\* if auto: time.sleep(AUTO_REFRESH_SEC); st.rerun()
AutoRefresh ==
    /\ pc = "refresh"
    /\ IF auto
       THEN /\ \E d \in Ticks : clock' = Min(clock + d, ClockEnd)
            /\ Rerun(node, auto, FALSE)
       ELSE /\ pc' = "idle"
            /\ cmd' = NoCmd
            /\ UNCHANGED <<hist, node, auto, clicked, last, uncaught, remote,
                           pushed, clock, io>>
    /\ UNCHANGED <<HISTORY_POINTS, peer, appended, everClicked, posts>>

\* variant: a new run may start while the script waits inside a call
AtYieldPoint_anywhere ==
    pc \in {"idle", "fetch", "fetching", "push", "buttons", "posting", "refresh"}

\* An operator's interaction takes effect where the script runner can stop
\* the run: between runs, and at the st.* calls before the fetch and after
\* the append.  It starts a new run with the new widget values.  While
\* fb_get_last or send_cmd waits, the script makes no st.* call.
AtYieldPoint == pc \in {"idle", "fetch", "buttons", "refresh"}

SelectNode ==
    /\ AtYieldPoint
    /\ \E n \in NODES \ {node} : Rerun(n, auto, FALSE)
    /\ UNCHANGED <<HISTORY_POINTS, peer, appended, clock, everClicked, posts>>

ToggleAuto ==
    /\ AtYieldPoint
    /\ Rerun(node, ~auto, FALSE)
    /\ UNCHANGED <<HISTORY_POINTS, peer, appended, clock, everClicked, posts>>

Click ==
    /\ AtYieldPoint
    /\ \E b \in Buttons : Rerun(node, auto, TRUE)
    /\ everClicked' = TRUE
    /\ posts' = 0
    /\ UNCHANGED <<HISTORY_POINTS, peer, appended, clock>>

Next ==
    \/ StartFetch
    \/ Fetch
    \/ Push
    \/ Commands
    \/ SendCmd
    \/ AutoRefresh
    \/ SelectNode
    \/ ToggleAuto
    \/ Click

Spec == Init /\ [][Next]_vars

\* time.sleep(AUTO_REFRESH_SEC) returns and st.rerun() restarts the script;
\* a started run reaches its call of fb_get_last.
LiveSpec == Spec /\ WF_vars(AutoRefresh) /\ WF_vars(StartFetch)

\* ----------------------------------------------- push_history called alone
\* push_history driven directly for one node, with any snapshots in any
\* order.  `appended` records the times of the rows appended and `pushed`
\* the call that has just returned.
InitAppend ==
    /\ HISTORY_POINTS = Capacity
    /\ hist = [n \in NODES |-> <<>>]
    /\ node \in NODES
    /\ auto = TRUE
    /\ clicked = FALSE
    /\ pc = "push_history"
    /\ last = EmptyDict
    /\ uncaught = NoException
    /\ remote = "none"
    /\ cmd = NoCmd
    /\ pushed = NoPush
    /\ appended = [n \in NODES |-> Recording]
    /\ clock = ClockStart
    /\ everClicked = FALSE
    /\ posts = 0
    /\ io = NoIO
    /\ peer = NoPeer

AppendSnapshot ==
    /\ pc = "push_history"
    /\ Len(hist[node]) < MaxRows
    /\ \E snapshot \in Snapshots, d1 \in Ticks, d2 \in Ticks :
        LET now == Min(clock + d1, ClockEnd)
            row == Row(snapshot, EffectiveTime(snapshot, now))
            added == dropna(concat(hist[node], row))
        IN
        /\ PushHistory(node, snapshot, d1, d2)
        /\ pushed' = [called |-> TRUE, ts |-> Get(snapshot, "ts"),
                      start |-> clock,
                      end |-> clock', row |-> row,
                      kept |-> Len(added) > Len(hist[node])]
        /\ appended' = IF Len(added) > Len(hist[node])
                       THEN [appended EXCEPT ![node] = Record(@, row.time.us)]
                       ELSE appended
    /\ UNCHANGED <<HISTORY_POINTS, peer, node, auto, clicked, pc, last,
                   uncaught, remote, cmd, everClicked, posts, io>>

AppendSpec == InitAppend /\ [][AppendSnapshot]_vars

\* The append alone with the environment variable HISTORY_POINTS set to 0.
InitZero ==
    /\ HISTORY_POINTS = 0
    /\ hist = [n \in NODES |-> <<>>]
    /\ node \in NODES
    /\ auto = TRUE
    /\ clicked = FALSE
    /\ pc = "push_history"
    /\ last = EmptyDict
    /\ uncaught = NoException
    /\ remote = "none"
    /\ cmd = NoCmd
    /\ pushed = NoPush
    /\ appended = [n \in NODES |-> Recording]
    /\ clock = ClockStart
    /\ everClicked = FALSE
    /\ posts = 0
    /\ io = NoIO
    /\ peer = NoPeer

ZeroSpec == InitZero /\ [][AppendSnapshot]_vars

\* --------------------------------------------------- send_cmd called alone
InitSend ==
    /\ HISTORY_POINTS = Capacity
    /\ hist = [n \in NODES |-> <<>>]
    /\ node = "node2"
    /\ auto = TRUE
    /\ clicked = FALSE
    /\ pc = "send_cmd"
    /\ last = EmptyDict
    /\ uncaught = NoException
    /\ remote = "none"
    /\ cmd = NoCmd
    /\ pushed = NoPush
    /\ appended = [n \in NODES |-> Recording]
    /\ clock = ClockStart
    /\ everClicked = FALSE
    /\ posts = 0
    /\ io = NoIO
    /\ peer = NoPeer

Send ==
    /\ pc = "send_cmd"
    /\ \E reply \in RelayReplies :
        cmd' = [k |-> "sent", reply |-> reply, result |-> send_cmd(reply)]
    /\ UNCHANGED <<HISTORY_POINTS, peer, hist, node, auto, clicked, pc, last,
                   uncaught, remote, pushed, appended, clock, everClicked,
                   posts, io>>

SendSpec == InitSend /\ [][Send]_vars

\* ================================================================= claims
\* the rows of a series are in non-decreasing time order
IsSorted(df) ==
    \A i \in 1..(Len(df) - 1) : df[i].time.us <= df[i + 1].time.us

Times(df) == [i \in 1..Len(df) |-> df[i].time.us]
Range(seq) == {seq[i] : i \in 1..Len(seq)}
\* the multiset of the elements of a sequence
BagOf(seq) ==
    [x \in Range(seq) |-> Cardinality({i \in 1..Len(seq) : seq[i] = x})]

\* C1: after every push_history call, whatever the order of the appended
\* timestamps, every node's stored series is in non-decreasing time order.
C1_SortedAfterEveryAppend == \A n \in NODES : IsSorted(hist[n])

\* C1 witness: the call that just returned appended a row older than a
\* stored one, and the row sits at the front of a full series.
C1_Witness ==
    /\ pushed.called
    /\ Len(hist[node]) = HISTORY_POINTS
    /\ pushed.row = hist[node][1]
    /\ pushed.row.time.us < hist[node][Len(hist[node])].time.us

\* C2: in every reachable state of a session, every node's series holds at
\* most HISTORY_POINTS rows.
C2_LengthWithinCapacity == \A n \in NODES : Len(hist[n]) <= HISTORY_POINTS

\* C2 witness: after fetches, node switches and a command, both nodes'
\* series are full.
C2_Witness ==
    /\ \A n \in NODES : Len(hist[n]) = HISTORY_POINTS
    /\ posts = 1
    /\ pc = "buttons"

\* C3: once more than HISTORY_POINTS rows have been appended for a node, its
\* series holds exactly HISTORY_POINTS rows, and their times are, as a
\* multiset, the HISTORY_POINTS largest of all times appended for the node.
C3_KeepsMostRecent ==
    \A n \in NODES :
        LET all == appended[n].times IN
        (~appended[n].lost /\ Len(all) > HISTORY_POINTS) =>
            /\ Len(hist[n]) = HISTORY_POINTS
            /\ BagOf(Times(hist[n]))
                   = BagOf(SubSeq(all, Len(all) - HISTORY_POINTS + 1, Len(all)))

\* C3 witness: more rows than the capacity were appended and a row older
\* than every stored row has been evicted.
C3_Witness ==
    /\ ~appended[node].lost
    /\ Len(appended[node].times) > HISTORY_POINTS + 1
    /\ Len(hist[node]) = HISTORY_POINTS
    /\ appended[node].times[1] < hist[node][1].time.us

\* C4: a node's series never holds two rows of the same time, so appending
\* an unchanged snapshot again does not grow the series.
C4_NoTwoRowsOfOneTime ==
    \A n \in NODES : \A i, j \in 1..Len(hist[n]) :
        i # j => hist[n][i].time # hist[n][j].time

\* a timestamp that is parseable as epoch milliseconds
Parseable(ts) == ts.k = "num"

\* C5: a snapshot without a parseable timestamp is not dropped: its row is
\* added with a time read from the wall clock during the call, between the
\* call's start and its end; a parseable timestamp is kept.
C5_WallClockFallback ==
    pushed.called =>
        /\ pushed.kept
        /\ pushed.row.time.k = "dt"
        /\ IF Parseable(pushed.ts)
           THEN pushed.row.time.us = pushed.ts.v * UsPerMs
           ELSE /\ pushed.start <= pushed.row.time.us
                /\ pushed.row.time.us <= pushed.end

\* C5 witness: a call with an unparseable timestamp during which the clock
\* advanced.
C5_Witness ==
    /\ pushed.called
    /\ pushed.ts = Str("abc")
    /\ pushed.kept
    /\ pushed.start < pushed.end

\* C6: send_cmd returns success with the message "OK (s)" exactly for the
\* statuses 200 <= s < 300; for any other status it returns failure with a
\* message that begins "HTTP s: " and goes on with the first 200 characters
\* of the body, or the whole body when that is shorter.
C6_OutcomeByStatus ==
    (cmd.k = "sent" /\ cmd.reply.k = "http") =>
        LET s == cmd.reply.status
            text == cmd.reply.text
            res == cmd.result
            head == <<"H", "T", "T", "P", " ">> \o Decimal(s) \o <<":", " ">>
            rest == SubSeq(res.msg, Len(head) + 1, Len(res.msg))
        IN
        /\ res.k = "return"
        /\ res.ok <=> (200 <= s /\ s < 300)
        /\ res.ok => res.msg = <<"O", "K", " ", "(">> \o Decimal(s) \o <<")">>
        /\ ~res.ok =>
            /\ Len(res.msg) >= Len(head)
            /\ SubSeq(res.msg, 1, Len(head)) = head
            /\ Len(rest) <= BODY_LIMIT
            /\ Len(rest) = Min(Len(text), BODY_LIMIT)
            /\ rest = SubSeq(text, 1, Len(rest))

\* C6 witness: status 300 with a body of 201 characters gives failure with
\* "HTTP 300: " and 200 characters.
C6_Witness ==
    /\ cmd.k = "sent"
    /\ cmd.reply.k = "http"
    /\ cmd.reply.status = 300
    /\ Len(cmd.reply.text) = BODY_LIMIT + 1
    /\ ~cmd.result.ok
    /\ Len(cmd.result.msg) = 10 + BODY_LIMIT
    /\ SubSeq(cmd.result.msg, 1, 10)
           = <<"H", "T", "T", "P", " ", "3", "0", "0", ":", " ">>

\* C7: every send_cmd call of a session returns one outcome and the run goes
\* on; when the POST raised, the outcome is failure with the error's text,
\* and no exception reaches the script.
C7_AlwaysAnOutcome ==
    cmd.k = "sent" =>
        /\ cmd.result.k = "return"
        /\ cmd.result.ok \in BOOLEAN
        /\ uncaught = NoException
        /\ pc = "refresh"
        /\ cmd.reply.k = "exc" =>
            /\ ~cmd.result.ok
            /\ cmd.result.msg = cmd.reply.exc.text

\* C7 witness: a click whose POST timed out.
C7_Witness ==
    /\ cmd.k = "sent"
    /\ cmd.reply.k = "exc"
    /\ cmd.reply.exc.type = "ConnectTimeout"
    /\ cmd.result.msg = <<"t", "i", "m", "e", "d">>
    /\ pc = "refresh"

\* C8: a click causes at most one POST: no POST is made before a click, and
\* since the latest click at most one, however many runs followed it.
C8_OnePostPerClick == posts <= (IF everClicked THEN 1 ELSE 0)

\* C8 witness: a click's failed POST was made and an automatic rerun has
\* passed the buttons again without another POST.
C8_Witness ==
    /\ posts = 1
    /\ auto
    /\ pc = "refresh"
    /\ cmd = NoCmd

\* C9: what the script sees of a failed fetch differs from what it sees of
\* an empty result: a failed fetch ends the run with an exception, an empty
\* result continues it with an empty record.
C9_FailureDistinctFromEmpty ==
    /\ remote = "error" => (uncaught # NoException /\ pc = "idle")
    /\ remote = "nodata" =>
        (uncaught = NoException /\ pc = "push" /\ last = EmptyDict)

\* C9 witness: a fetch has failed.
C9_Witness ==
    /\ remote = "error"
    /\ uncaught = "UnavailableError"
    /\ auto

\* C10: with auto refresh on, a failed fetch does not stop the loop: the
\* run that failed leaves a further run pending.
C10_LoopSurvivesFailedFetch ==
    (auto /\ remote = "error") =>
        pc \in {"fetch", "fetching", "push", "buttons", "posting", "refresh"}

\* Two sessions of the one server process, each running the script for
\* its own browser tab.
InitPair ==
    /\ HISTORY_POINTS = Capacity
    /\ hist = [n \in NODES |-> <<>>]
    /\ node \in NODES
    /\ auto = TRUE
    /\ clicked = FALSE
    /\ pc = "sessions"
    /\ last = EmptyDict
    /\ uncaught = NoException
    /\ remote = "none"
    /\ cmd = NoCmd
    /\ pushed = NoPush
    /\ appended = [n \in NODES |-> Recording]
    /\ clock = ClockStart
    /\ everClicked = FALSE
    /\ posts = 0
    /\ io = NoIO
    /\ \E n \in NODES : peer = [NoPeer EXCEPT !.node = n]

\* variant: the frames live in one dict of the process, shared by its
\* sessions
session_state_shared(sid) == "s1"

\* st.session_state in a run of session sid: the state of that session
session_state(sid) == sid

\* the hist entry of each session's state
SessionHist == [s \in Sessions |-> IF s = "s1" THEN hist ELSE peer.hist]

\* push_history(node, last) in a run of one of the two sessions, for the
\* node that session views
SessionAppend ==
    /\ pc = "sessions"
    /\ \E sid \in Sessions, snapshot \in StoredSnapshots,
          d1 \in Ticks, d2 \in Ticks :
        LET n == IF sid = "s1" THEN node ELSE peer.node
            state == session_state(sid)
            now == Min(clock + d1, ClockEnd)
        IN
        /\ clock' = Min(now + d2, ClockEnd)
        /\ \E df \in push_history(SessionHist[state][n], snapshot, now,
                                  HISTORY_POINTS) :
            LET stored == [SessionHist EXCEPT ![state][n] = df] IN
            /\ hist' = stored["s1"]
            /\ peer' = [peer EXCEPT !.hist = stored["s2"], !.actor = sid]
    /\ UNCHANGED <<HISTORY_POINTS, node, auto, clicked, pc, last, uncaught,
                   remote, cmd, pushed, appended, everClicked, posts, io>>

PairSpec == InitPair /\ [][SessionAppend]_vars

\* The run reaches the clicked button and calls send_cmd.
Dispatch == Commands /\ pc' = "posting"

\* C11: command dispatch and the refresh cycle do not block each other:
\* while a relay call waits, the next fetch can start, and while a fetch
\* waits, a clicked command can be dispatched.
C11_DispatchAndRefreshIndependent ==
    /\ (pc = "posting") => ENABLED StartFetch
    /\ (pc = "fetching" /\ clicked) => ENABLED Dispatch

\* C12: within a session at most one fetch of the remote store is in
\* flight: a fetch starts only when no earlier fetch is still waiting.
C12_OneFetchInFlight ==
    /\ io.inflight <= 1
    /\ ENABLED StartFetch => io.inflight = 0

\* a fetch is in flight in a run started by an operator's click, after the
\* operator changed the node and switched auto refresh off
C12_Witness ==
    /\ io.inflight = 1
    /\ pc = "fetching"
    /\ clicked
    /\ node = "node1"
    /\ ~auto

\* C13: every node's series is empty at session start and changes only
\* in a push_history step: the steps of send_cmd, of fb_get_last, a change
\* of the selected node and a toggle of auto refresh leave every series as
\* it was.
C13_OnlyPushHistoryChangesSeries ==
    /\ \A n \in NODES : hist[n] = <<>>
    /\ [][/\ (hist' # hist) => Push
          /\ (SendCmd \/ StartFetch \/ Fetch \/ SelectNode \/ ToggleAuto)
                => (hist' = hist)]_vars

\* a command was sent, after a change of node, while a series holds rows
C13_Witness ==
    /\ cmd.k = "sent"
    /\ node = "node1"
    /\ ~auto
    /\ hist["node2"] # <<>>
    /\ hist["node1"] # <<>>

\* C14: a pass performs exactly one fetch and at most one append, for the
\* selected node only: that node's series grows by at most one row in the
\* pass, the series of the other nodes are left as they were, and a change
\* of the selected node keeps every series.
C14_OneFetchOneAppendSelectedNode ==
    /\ io = NoIO
    /\ [][/\ io'.fetches = (IF pc' = "fetch" THEN 0 ELSE 1)
          /\ io'.appends <= io'.fetches
          /\ (pc' \in {"fetch", "fetching", "push"}) => io'.appends = 0
          /\ \A n \in NODES \ {node} : hist'[n] = hist[n]
          /\ (hist'[node] # hist[node]) => io'.appends = io.appends + 1
          /\ Len(hist'[node]) <= Len(hist[node]) + 1
          /\ (node' # node) => hist' = hist]_vars

\* a pass for node1 has fetched and appended once, the series of node2
\* holding the rows of earlier passes
C14_Witness ==
    /\ pc = "buttons"
    /\ node = "node1"
    /\ io.fetches = 1
    /\ io.appends = 1
    /\ Len(hist["node1"]) = 1
    /\ Len(hist["node2"]) = Capacity

\* C15: history is per session: with two sessions running, an append of
\* one session changes no series held by the other.
C15_SessionsIsolated ==
    [][/\ (peer'.actor = "s1") => (peer'.hist = peer.hist)
       /\ (peer'.actor = "s2") => (hist' = hist)]_vars

\* both sessions view the same node and the second has just appended;
\* their series of that node differ
C15_Witness ==
    /\ peer.actor = "s2"
    /\ peer.node = node
    /\ Len(hist[node]) = Capacity
    /\ peer.hist[node] # <<>>
    /\ peer.hist[node] # hist[node]

\* C16: when the fetch returns no data yet (None or an empty record),
\* push_history is not called and every node's series stays as it was.
C16_NoDataNoAppend ==
    [][(pc = "push" /\ (remote = "nodata" \/ last = EmptyDict))
         => (hist' = hist /\ io'.appends = io.appends)]_vars

\* a run started by a click has fetched "no data yet" and gone on to the
\* buttons without an append, the series holding the rows of earlier runs
C16_Witness ==
    /\ pc = "buttons"
    /\ clicked
    /\ io.fetches = 1
    /\ io.appends = 0
    /\ Len(hist[node]) = Capacity

\* the series of the viewed node is at capacity and the row just appended
\* is strictly older than every row it held
OlderThanAllAtCapacity ==
    /\ pushed'.called
    /\ Len(hist[node]) = HISTORY_POINTS
    /\ \A i \in 1..Len(hist[node]) :
          pushed'.row.time.us < hist[node][i].time.us

C18_ZeroCapacityKeepsNothing ==
    (HISTORY_POINTS = 0 /\ pushed.called) => Len(hist[node]) = 0

\* a step that an operator's interaction starts: a new run with another
\* node, another auto setting or a clicked button
OperatorActs ==
    /\ pc' = "fetch"
    /\ (node' # node \/ auto' # auto \/ clicked')

\* C19: auto refresh drives the loop.  With auto refresh on, a pass that
\* completes without exception is followed by a new run and its fetch.
\* With it off, a completed pass leaves the script idle, and from there no
\* fetch or append happens before the operator acts.
C19_AutoRefreshDrivesLoop ==
    /\ [][(pc = "refresh" /\ auto) => pc' = "fetch"]_vars
    /\ [][(pc = "refresh" /\ ~auto) => (pc' = "idle" \/ OperatorActs)]_vars
    /\ [][(pc = "idle") => OperatorActs]_vars
    /\ (pc = "refresh" /\ auto) ~> (pc = "fetching")

\* auto refresh is off and a pass that fetched and appended has completed
\* without exception: the script is idle
C19_Witness ==
    /\ pc = "idle"
    /\ ~auto
    /\ uncaught = NoException
    /\ io.fetches = 1
    /\ io.appends = 1
    /\ everClicked

====
